---- MODULE Spec2Model ----
(***************************************************************************)
(* A model of port-client (src/dist/index.js): the PortClient class and    *)
(* runPortClient.  One run of execute() is a state machine whose suspend   *)
(* points are the awaits on the shell primitive (shell-exec) and on the    *)
(* readline prompt.  JavaScript strings that the code parses are sequences *)
(* of one-character strings; strings that are only printed are TLA+        *)
(* strings.                                                                *)
(***************************************************************************)
EXTENDS Integers, Sequences, FiniteSets, TLC

\* Longest `ports` array the model enumerates.
MaxPorts == 2

(***************************************************************************)
(* JavaScript values                                                       *)
(***************************************************************************)
\* A JS number: NaN or an integer.
NaN == [nan |-> TRUE, n |-> 0]
Num(n) == [nan |-> FALSE, n |-> n]

\* A user-supplied port value: a number, a string or null.
JsNum(n) == [k |-> "num", n |-> n, s |-> <<>>]
JsStr(s) == [k |-> "str", n |-> 0, s |-> s]
JsNull == [k |-> "null", n |-> 0, s |-> <<>>]

Digits == {"0", "1", "2", "3", "4", "5", "6", "7", "8", "9"}

DigitVal(c) ==
  CASE c = "0" -> 0 [] c = "1" -> 1 [] c = "2" -> 2 [] c = "3" -> 3
    [] c = "4" -> 4 [] c = "5" -> 5 [] c = "6" -> 6 [] c = "7" -> 7
    [] c = "8" -> 8 [] c = "9" -> 9

IsDigits(s) == Len(s) > 0 /\ \A i \in 1..Len(s) : s[i] \in Digits

RECURSIVE DecVal(_)
DecVal(s) ==
  IF s = <<>> THEN 0
  ELSE 10 * DecVal(SubSeq(s, 1, Len(s) - 1)) + DigitVal(s[Len(s)])

\* Number(<string>) for strings of digits, an optional leading "-", and
\* other characters: "" is 0, a decimal integer is its value, the rest NaN.
StringToNumber(s) ==
  IF s = <<>> THEN Num(0)
  ELSE IF IsDigits(s) THEN Num(DecVal(s))
  ELSE IF s[1] = "-" /\ IsDigits(Tail(s)) THEN Num(0 - DecVal(Tail(s)))
  ELSE NaN

\* Number(v) that converts no string.
ToNumberOfNumbers(v) ==
  CASE v.k = "num" -> Num(v.n)
    [] v.k = "null" -> Num(0)
    [] v.k = "str" -> NaN

\* Number(v) for a port value.
ToNumber(v) ==
  CASE v.k = "num" -> Num(v.n)
    [] v.k = "null" -> Num(0)
    [] v.k = "str" -> StringToNumber(v.s)

\* Boolean(x) that takes 0 for truthy.
TruthyZero(x) == ~x.nan

\* Boolean(x) for a JS number: NaN and 0 are falsy.
Truthy(x) == ~x.nan /\ x.n # 0

\* `${x}` for a JS number.
NumStr(x) == IF x.nan THEN "NaN" ELSE ToString(x.n)

\* The TLA+ string of a sequence of characters.
RECURSIVE StrOf(_)
StrOf(s) == IF s = <<>> THEN "" ELSE s[1] \o StrOf(Tail(s))

\* `${v}` for a port value.
ValStr(v) ==
  CASE v.k = "num" -> ToString(v.n)
    [] v.k = "null" -> "null"
    [] v.k = "str" -> StrOf(v.s)

\* String.prototype.split on a one-character separator.
RECURSIVE Split(_, _)
Split(s, c) ==
  IF \A i \in 1..Len(s) : s[i] # c THEN <<s>>
  ELSE LET i == CHOOSE j \in 1..Len(s) :
                  s[j] = c /\ \A m \in 1..(j - 1) : s[m] # c
       IN <<SubSeq(s, 1, i - 1)>> \o Split(SubSeq(s, i + 1, Len(s)), c)

\* Array.prototype.join over already-stringified elements.
RECURSIVE Join(_, _)
Join(s, sep) ==
  IF s = <<>> THEN ""
  ELSE IF Len(s) = 1 THEN s[1]
  ELSE s[1] \o sep \o Join(Tail(s), sep)

(***************************************************************************)
(* Configuration (the constructor's fields)                                *)
(***************************************************************************)
\* this.ports: an array of port values, or one port value.
PortsArray(a) == [isArray |-> TRUE, items |-> a, v |-> JsNull]
PortsSingle(v) == [isArray |-> FALSE, items |-> <<>>, v |-> v]

\* this.range: null or a string.
NoRange == [isNull |-> TRUE, s |-> <<>>]
RangeStr(s) == [isNull |-> FALSE, s |-> s]

PortVals ==
  {JsNum(80), JsStr(<<"8", "1">>), JsNum(0), JsStr(<<"x">>)}

Arrays == UNION {[1..k -> PortVals] : k \in 0..MaxPorts}

Ranges ==
  {RangeStr(<<"8", "0", "-", "8", "1">>), RangeStr(<<"8", "1", "-", "8", "0">>),
   RangeStr(<<"x", "-", "8", "1">>), RangeStr(<<"8", "0">>),
   RangeStr(<<"8", "1", "-", "8", "1">>), RangeStr(<<"0", "-", "1">>)}

\* The values given as a single port.
SingleVals == PortVals \cup {JsNull, JsNum(70000)}

PortSpecs ==
  {[ports |-> PortsArray(a), range |-> NoRange] : a \in Arrays}
  \cup {[ports |-> PortsSingle(v), range |-> NoRange] : v \in SingleVals}
  \cup {[ports |-> PortsSingle(v), range |-> r] : v \in {JsNull, JsNum(80)}, r \in Ranges}
  \cup {[ports |-> PortsArray(<<>>), range |-> RangeStr(<<"8", "0", "-", "8", "1">>)],
        [ports |-> PortsArray(<<JsNum(80)>>), range |-> RangeStr(<<"x", "-", "8", "1">>)]}

Actions == {"check", "isExist", "kill", "restart"}
Methods == {"tcp", "udp"}
Speeds == {"safe", "fast"}
Platforms == {"linux", "win32"}

\* The constructor's fields.
Configs ==
  {c \in [ports : {s.ports : s \in PortSpecs}, range : {s.range : s \in PortSpecs},
          method : Methods, action : Actions, interactive : BOOLEAN,
          dryRun : BOOLEAN, verbose : BOOLEAN, graceful : BOOLEAN,
          speed : Speeds, platform : Platforms] :
     [ports |-> c.ports, range |-> c.range] \in PortSpecs}

(***************************************************************************)
(* Output of the shell primitive: stdout is a sequence of lines (what      *)
(* stdout.split('\n') yields); "" is the one empty line.                   *)
(***************************************************************************)
Line(k, s, proto, host, lport, rport, sep, state, pid) ==
  [k |-> k, s |-> s, proto |-> proto, host |-> host, lport |-> lport,
   rport |-> rport, sep |-> sep, state |-> state, pid |-> pid]

\* A line of free text without digits; TextLine("") is an empty line.
TextLine(s) == Line("text", s, <<>>, <<>>, <<>>, <<>>, <<>>, "", <<>>)

\* A line of `lsof -t`: one process id.
PidLine(pid) == Line("pid", "", <<>>, <<>>, <<>>, <<>>, <<>>, "", pid)

\* A row of lsof -i: "node <pid> user 22u IPv4 0t0 TCP <host>:<lport> <state>",
\* or "... <host>:<lport>-><host>:<rport> <state>" when rport is not empty.
LsofRow(proto, host, lport, rport, state, pid) ==
  Line("lsof", "", proto, host, lport, rport, <<>>, state, pid)

\* A row of Windows netstat -nao:
\* "  <proto>    <host>:<lport><sep>    0.0.0.0:0    <state>    <pid>".
WinRow(proto, host, lport, sep, state, pid) ==
  Line("win", "", proto, host, lport, <<>>, sep, state, pid)

\* A row of Unix netstat: "<proto> 0 0 <host>:<lport> 0.0.0.0:* <state>".
NetstatRow(proto, host, lport, state) ==
  Line("netstat", "", proto, host, lport, <<>>, <<>>, state, <<>>)

IsBlank(line) == line.k = "text" /\ line.s = ""

\* stdout.trim().length > 0
TrimNonEmpty(stdout) == \E i \in 1..Len(stdout) : ~IsBlank(stdout[i])

\* The characters of a Windows row.
WinRowChars(r) ==
  <<" ", " ">> \o r.proto \o <<" ">> \o r.host \o <<":">> \o r.lport \o r.sep
  \o <<" ">> \o <<"0", ".", "0", ".", "0", ".", "0", ":", "0">> \o <<" ">>
  \o r.pid

\* The text of a line.
LineStr(l) ==
  CASE l.k = "text" -> l.s
    [] l.k = "pid" -> StrOf(l.pid)
    [] l.k = "win" -> StrOf(WinRowChars(l))
    [] l.k = "netstat" ->
         StrOf(l.proto) \o " 0 0 " \o StrOf(l.host) \o ":" \o StrOf(l.lport)
         \o " 0.0.0.0:* " \o l.state
    [] l.k = "lsof" ->
         "node " \o StrOf(l.pid) \o " user 22u IPv4 0t0 " \o StrOf(l.proto) \o " "
         \o StrOf(l.host) \o ":" \o StrOf(l.lport)
         \o (IF l.rport = <<>> THEN "" ELSE "->" \o StrOf(l.host) \o ":" \o StrOf(l.rport))
         \o (IF l.state = "" THEN "" ELSE " " \o l.state)

\* `${stdout}`
StdoutStr(stdout) == Join([i \in 1..Len(stdout) |-> LineStr(stdout[i])], "\n")

\* A reply of the shell primitive: the promise resolves with { stdout } or
\* rejects with an Error carrying msg.
Resolved(stdout) == [ok |-> TRUE, stdout |-> stdout, msg |-> ""]
Rejected(msg) == [ok |-> FALSE, stdout |-> <<>>, msg |-> msg]

ErrMsgs == {"No process found for port"}

EmptyOut == <<TextLine("")>>
NewlineOut == <<TextLine(""), TextLine("")>>
PidOut == <<PidLine(<<"1", "2", "3", "4">>), TextLine("")>>
KilledOut == <<TextLine("Process killed successfully")>>
Listen80 ==
  LsofRow(<<"T", "C", "P">>, <<"*">>, <<"8", "0">>, <<>>, "(LISTEN)", <<"1", "2", "3", "4">>)
Estab81 ==
  LsofRow(<<"T", "C", "P">>, <<"1", "0", ".", "0", ".", "0", ".", "1">>,
          <<"5", "0", "0", "0">>, <<"8", "1">>, "(ESTABLISHED)", <<"5", "6">>)
WinHost == <<"0", ".", "0", ".", "0", ".", "0">>
Netstat80 == NetstatRow(<<"t", "c", "p">>, WinHost, <<"8", "0">>, "LISTEN")
Win80 == WinRow(<<"T", "C", "P">>, WinHost, <<"8", "0">>, <<>>, "LISTENING", <<"1", "2", "3", "4">>)
Win80c == WinRow(<<"T", "C", "P">>, WinHost, <<"8", "0">>, <<",">>, "LISTENING", <<"1", "2", "3", "4">>)
Win80v6c ==
  WinRow(<<"T", "C", "P">>, <<"[", ":", ":", "]">>, <<"8", "0">>, <<",">>, "LISTENING", <<"5", "6">>)

\* What the environment may answer to a command issued for `purpose`.
Replies(purpose) ==
  {Rejected(m) : m \in ErrMsgs} \cup
  {Resolved(o) : o \in
     CASE purpose = "exists" -> {EmptyOut, NewlineOut, PidOut}
       [] purpose = "check" -> {EmptyOut, <<Listen80, TextLine("")>>, <<Estab81, TextLine("")>>}
       [] purpose = "kill" -> {KilledOut}
       [] purpose = "netstat" -> {<<Win80, TextLine("")>>, <<Win80c, Win80v6c>>, <<Win80v6c, TextLine("")>>}
       [] purpose = "list" -> {EmptyOut, <<Listen80, Estab81, TextLine("")>>,
                               <<Win80, TextLine("")>>, <<Win80c, Win80v6c>>,
                               <<Netstat80>>}}

(***************************************************************************)
(* parsePorts                                                              *)
(***************************************************************************)
\* Array.from with length end - start: the interval without its end.
RangePortsExclusive(start, end) ==
  LET len == IF start.nan \/ end.nan THEN 0 ELSE end.n - start.n
  IN [i \in 1..(IF len < 0 THEN 0 ELSE len) |-> Num(start.n + i - 1)]

\* Array.from({ length: end - start + 1 }, (_, i) => start + i)
RangePorts(start, end) ==
  LET len == IF start.nan \/ end.nan THEN 0 ELSE end.n - start.n + 1
  IN [i \in 1..(IF len < 0 THEN 0 ELSE len) |-> Num(start.n + i - 1)]

\* parsePorts whose single-value branch returns [port] unconditionally.
parsePortsKeepFalsy(c) ==
  IF c.ports.isArray
  THEN SelectSeq([i \in 1..Len(c.ports.items) |-> ToNumber(c.ports.items[i])], Truthy)
  ELSE IF ~c.range.isNull /\ c.range.s # <<>>
  THEN LET parts == Split(c.range.s, "-")
           nums == [i \in 1..Len(parts) |-> StringToNumber(parts[i])]
           start == nums[1]
           end == IF Len(nums) >= 2 THEN nums[2] ELSE NaN
       IN RangePorts(start, end)
  ELSE <<ToNumber(c.ports.v)>>

\* parsePorts looking at the range before the array.
parsePortsRangeFirst(c) ==
  IF ~c.range.isNull /\ c.range.s # <<>>
  THEN LET parts == Split(c.range.s, "-")
           nums == [i \in 1..Len(parts) |-> StringToNumber(parts[i])]
           start == nums[1]
           end == IF Len(nums) >= 2 THEN nums[2] ELSE NaN
       IN RangePorts(start, end)
  ELSE IF c.ports.isArray
  THEN SelectSeq([i \in 1..Len(c.ports.items) |-> ToNumber(c.ports.items[i])], Truthy)
  ELSE LET port == ToNumber(c.ports.v)
       IN IF Truthy(port) THEN <<port>> ELSE <<>>

parsePorts(c) ==
  IF c.ports.isArray
  THEN SelectSeq([i \in 1..Len(c.ports.items) |-> ToNumber(c.ports.items[i])], Truthy)
  ELSE IF ~c.range.isNull /\ c.range.s # <<>>
  THEN LET parts == Split(c.range.s, "-")
           nums == [i \in 1..Len(parts) |-> StringToNumber(parts[i])]
           start == nums[1]
           end == IF Len(nums) >= 2 THEN nums[2] ELSE NaN
       IN RangePorts(start, end)
  ELSE LET port == ToNumber(c.ports.v)
       IN IF Truthy(port) THEN <<port>> ELSE <<>>

(***************************************************************************)
(* Commands: a command is the sequence of its space-separated words.       *)
(***************************************************************************)
ToUpperCase(m) == CASE m = "tcp" -> "TCP" [] m = "udp" -> "UDP" [] OTHER -> m

\* `${this.ports}`
PortsStr(ports) ==
  IF ports.isArray
  THEN Join([i \in 1..Len(ports.items) |->
               IF ports.items[i].k = "null" THEN "" ELSE ValStr(ports.items[i])], ",")
  ELSE ValStr(ports.v)

\* The command of listActivePorts.
listCommand(c) ==
  IF c.platform = "win32" THEN <<"netstat", "-nao">>
  ELSE IF c.speed = "fast" THEN <<"lsof", "-i", ":" \o PortsStr(c.ports)>>
  ELSE <<"lsof", "-i", "-P", "-n">>

\* The probe of isExistFast.
isExistFastCommand(port) == <<"lsof", "-i", "tcp:" \o NumStr(port)>>

\* The probe of isExistNormal.
isExistNormalCommand(port) == <<"netstat", "-na", "|", "grep", ":" \o NumStr(port)>>

\* The probe of checkIfProcessExists.
checkIfProcessExistsCommand(port) == <<"lsof", "-t", "-i", "tcp:" \o NumStr(port)>>

buildBaseCommand(method, port) == <<"lsof", "-t", "-i", method \o ":" \o NumStr(port)>>

\* The command as one string.
CmdStr(cmd) == Join(cmd, " ")

(***************************************************************************)
(* Listing parsers                                                         *)
(***************************************************************************)
ParenStates == {"(LISTEN)", "(ESTABLISHED)", "(CLOSED)"}

IsPortToken(s) == IsDigits(s) /\ Len(s) <= 5

\* line.match(regex) || [] for the regex of parseUnixPorts: the matches of
\*   (?<=:\d{1,5})->  |  \b\d{1,5}(?=->|\s+\(CLOSED\)|\s+\(ESTABLISHED\)|\s+\(LISTEN\))
\* in one line, left to right.  The rows of netstat hold no "->" and no
\* number followed by a parenthesised state, the rows of Windows netstat
\* neither: no match.
UnixMatches(l) ==
  IF l.k # "lsof" THEN <<>>
  ELSE IF l.rport = <<>>
  THEN (IF IsPortToken(l.lport) /\ l.state \in ParenStates THEN <<l.lport>> ELSE <<>>)
  ELSE (IF IsPortToken(l.lport) THEN <<l.lport, <<"-", ">">> >> ELSE <<>>)
       \o (IF IsPortToken(l.rport) /\ l.state \in ParenStates THEN <<l.rport>> ELSE <<>>)

RECURSIVE FlatMap(_)
FlatMap(ss) == IF ss = <<>> THEN <<>> ELSE ss[1] \o FlatMap(Tail(ss))

NonEmptyStr(s) == s # <<>>

parseUnixPorts(lines) ==
  SelectSeq(FlatMap([i \in 1..Len(lines) |-> UnixMatches(lines[i])]), NonEmptyStr)

\* line.match(regex) for the global regex ^ *<METHOD> *[^ ]*:(\d+), of
\* parseWindowsPorts: the list of whole matches (a line holds no line
\* break, so ^ matches at its start only), or <<>> for null.
WinMatches(l, method) ==
  IF l.k = "win" /\ StrOf(l.proto) = ToUpperCase(method) /\ IsDigits(l.lport)
     /\ l.sep = <<",">>
  THEN << <<" ", " ">> \o l.proto \o <<" ">> \o l.host \o <<":">> \o l.lport \o l.sep >>
  ELSE <<>>

RECURSIVE parseWindowsPortsFrom(_, _, _)
parseWindowsPortsFrom(lines, method, acc) ==
  IF lines = <<>> THEN acc
  ELSE LET match == WinMatches(lines[1], method)
           \* match[1] is the second whole match
           hit == Len(match) >= 2 /\ match[2] # <<>>
                  /\ \A j \in 1..Len(acc) : acc[j] # match[2]
       IN parseWindowsPortsFrom(Tail(lines), method,
                                IF hit THEN Append(acc, match[2]) ELSE acc)

parseWindowsPorts(lines, method) == parseWindowsPortsFrom(lines, method, <<>>)

\* What listActivePorts returns for a resolved listing command.
listActivePorts(c, stdout) ==
  IF c.platform = "win32" THEN parseWindowsPorts(stdout, c.method)
  ELSE parseUnixPorts(stdout)

\* Whether ^ *<METHOD> *[^ ]*:<port>, matches the line from its start.
WinPortMatch(l, method, port) ==
  /\ l.k = "win"
  /\ StrOf(l.proto) = ToUpperCase(method)
  /\ StrOf(l.lport) = NumStr(port)
  /\ l.sep = <<",">>

\* lines.filter((line) => regex.test(line)) with a global regex: test()
\* starts at regex.lastIndex, which a match leaves past the start of the
\* line and a failure resets to 0.  `fresh` is lastIndex = 0.
RECURSIVE linesWithPort(_, _, _, _)
linesWithPort(lines, method, port, fresh) ==
  IF lines = <<>> THEN <<>>
  ELSE IF fresh /\ WinPortMatch(lines[1], method, port)
  THEN <<lines[1]>> \o linesWithPort(Tail(lines), method, port, FALSE)
  ELSE linesWithPort(Tail(lines), method, port, TRUE)

\* line.match(/(\d+)\w*/)[1]: the first run of digits of the line, <<>> if none.
RECURSIVE DigitRun(_)
DigitRun(s) ==
  IF s = <<>> \/ s[1] \notin Digits THEN <<>> ELSE <<s[1]>> \o DigitRun(Tail(s))

RECURSIVE FirstDigitRun(_)
FirstDigitRun(s) ==
  IF s = <<>> THEN <<>>
  ELSE IF s[1] \in Digits THEN DigitRun(s)
  ELSE FirstDigitRun(Tail(s))

\* The command getWindowsKillCommand builds from a resolved netstat.
windowsKillCommand(stdout, method, port) ==
  LET rows == linesWithPort(stdout, method, port, TRUE)
      runs == [i \in 1..Len(rows) |-> FirstDigitRun(WinRowChars(rows[i]))]
      pids == SelectSeq(runs, NonEmptyStr)
  IN <<"TaskKill", "/F">>
     \o (IF pids = <<>> THEN <<"/PID", "">>
         ELSE FlatMap([i \in 1..Len(pids) |-> <<"/PID", StrOf(pids[i])>>]))

(***************************************************************************)
(* State of one run                                                        *)
(***************************************************************************)
VARIABLES
  cfg,       \* the PortClient fields
  pc,        \* the await the run is suspended at
  ports,     \* the argument of handlePorts
  idx,       \* the index of the loop of showPortInfo / killPorts
  active,    \* what listActivePorts returned to execute()
  sh,        \* the calls of the shell primitive, each with its reply
  out,       \* the console: success(), error() and log() messages
  result,    \* the promise of execute(): pending, resolved or rejected
  err,       \* the message of the rejection
  attempts,  \* the ports whose iteration of killPorts has begun
  prompts,   \* the questions asked on the readline interface
  answer,    \* the line the operator typed at the question
  prev,      \* the calls and the console of the run before this one
  suspended  \* the other invocations of the driver, each as it stands at its await

vars ==
  <<cfg, pc, ports, idx, active, sh, out, result, err, attempts, prompts, answer, prev,
    suspended>>

Call(cmd, purpose, port) ==
  [cmd |-> cmd, purpose |-> purpose, port |-> port, st |-> "pending",
   stdout |-> <<>>, msg |-> ""]

\* A reply that leaves its call in flight: the caller did not wait for it.
SettleNothing(calls, reply) == calls

\* The pending call, settled by a reply.
Settle(calls, reply) ==
  [calls EXCEPT ![Len(calls)] =
     [@ EXCEPT !.st = IF reply.ok THEN "resolved" ELSE "rejected",
               !.stdout = reply.stdout, !.msg = reply.msg]]

Msg(level, text) == [level |-> level, text |-> text]

\* this.log(message): printed only when verbose.
log(c, o, text) == IF c.verbose THEN Append(o, Msg("log", text)) ELSE o

\* The part of the state a step of the per-port loops decides.
St(p, i, s, o, r, e, a) ==
  [pc |-> p, idx |-> i, sh |-> s, out |-> o, result |-> r, err |-> e, attempts |-> a]

Apply(st) ==
  /\ pc' = st.pc
  /\ idx' = st.idx
  /\ sh' = st.sh
  /\ out' = st.out
  /\ result' = st.result
  /\ err' = st.err
  /\ attempts' = st.attempts

NoPort == Num(0)

\* No run came before this one.
NoRun == [taken |-> FALSE, sh |-> <<>>, out |-> <<>>]

\* The reply a settled call got.
ReplyOf(call) ==
  IF call.st = "resolved" THEN Resolved(call.stdout) ELSE Rejected(call.msg)

\* What the system answers to the pending probe of showPortInfo: anything
\* in a first run; in a second run, on the unmodified system, what it
\* answered to that probe in the first.
ProbeReplies ==
  IF prev.taken /\ Len(sh) <= Len(prev.sh) THEN {ReplyOf(prev.sh[Len(sh)])}
  ELSE Replies("check")

(***************************************************************************)
(* Existence checks and kill-command construction                          *)
(***************************************************************************)
\* What an async function does with a reply: return a value or throw.
Return(v) == [threw |-> FALSE, message |-> "", value |-> v]
Throw(m) == [threw |-> TRUE, message |-> m, value |-> <<>>]

\* isExistFast without its try/catch: a rejected probe rejects the check.
isExistFastUncaught(reply) ==
  IF reply.ok THEN Return(<<TrimNonEmpty(reply.stdout)>>) ELSE Throw(reply.msg)

isExistFast(reply) ==
  IF reply.ok THEN Return(<<TrimNonEmpty(reply.stdout)>>) ELSE Return(<<FALSE>>)

\* A line that shows a socket in a listening state.
HasListen(stdout) ==
  \E i \in 1..Len(stdout) : stdout[i].state \in {"(LISTEN)", "LISTEN", "LISTENING"}

\* isExistNormal deciding by stdout.includes('LISTEN').
isExistNormalListen(reply) ==
  IF reply.ok THEN Return(<<HasListen(reply.stdout)>>) ELSE Return(<<FALSE>>)

isExistNormal(reply) ==
  IF reply.ok THEN Return(<<TrimNonEmpty(reply.stdout)>>) ELSE Return(<<FALSE>>)

\* The probe checkPortStatus issues, and its verdict on the reply.
checkPortStatusCommand(c, port) ==
  IF c.speed = "fast" THEN isExistFastCommand(port) ELSE isExistNormalCommand(port)

\* checkPortStatus that remembers it ran: a later run finds every port
\* not active without looking at the reply.
checkPortStatusOnce(c, reply) ==
  IF prev.taken THEN Return(<<FALSE>>)
  ELSE IF c.speed = "fast" THEN isExistFast(reply) ELSE isExistNormal(reply)

checkPortStatus(c, reply) ==
  IF c.speed = "fast" THEN isExistFast(reply) ELSE isExistNormal(reply)

checkIfProcessExists(port, reply) ==
  IF reply.ok THEN Return(<<TrimNonEmpty(reply.stdout)>>)
  ELSE Throw("Failed to check if process exists on port " \o NumStr(port))

\* getUnixKillCommand, from the reply to the probe of checkIfProcessExists.
getUnixKillCommand(port, method, graceful, reply) ==
  LET baseCommand == buildBaseCommand(method, port)
      killCommand == IF graceful THEN <<"kill">> ELSE <<"kill", "-9">>
      processExists == checkIfProcessExists(port, reply)
  IN IF processExists.threw THEN Throw(processExists.message)
     ELSE IF ~processExists.value[1] THEN Throw("No process running on port")
     ELSE Return(baseCommand \o killCommand)

\* getWindowsKillCommand, from the reply to netstat -nao.
getWindowsKillCommand(port, method, reply) ==
  IF reply.ok THEN Return(windowsKillCommand(reply.stdout, method, port))
  ELSE Throw("Failed to get Windows kill command: " \o reply.msg)

(***************************************************************************)
(* The per-port loops                                                      *)
(***************************************************************************)
\* What showPortInfo prints for a port once checkPortStatus has settled.
showPortInfoReport(port, status) ==
  IF status.threw
  THEN Msg("error", "Error checking port " \o NumStr(port) \o ": " \o status.message)
  ELSE Msg("success", IF status.value[1] THEN "Port " \o NumStr(port) \o " is active."
                      ELSE "Port " \o NumStr(port) \o " is not active.")

\* showPortInfo from the i-th port on: issue its probe, or finish.
showPortInfo(c, ps, i, s, o, a) ==
  IF i > Len(ps) THEN St("done", i, s, o, "resolved", "", a)
  ELSE St("check", i, Append(s, Call(checkPortStatusCommand(c, ps[i]), "check", ps[i])),
          o, "pending", "", a)

\* killPorts from the i-th port on: begin its iteration, or finish.
killPorts(c, ps, i, s, o, a) ==
  IF i > Len(ps) THEN St("done", i, s, o, "resolved", "", a)
  ELSE IF c.platform = "win32"
  THEN St("netstat", i, Append(s, Call(<<"netstat", "-nao">>, "netstat", ps[i])),
          o, "pending", "", Append(a, ps[i]))
  ELSE St("exists", i, Append(s, Call(checkIfProcessExistsCommand(ps[i]), "exists", ps[i])),
          o, "pending", "", Append(a, ps[i]))

\* killPorts whose catch block ends the loop after reporting the failure.
killPortsCatchBreak(c, ps, i, s, o, a, message) ==
  St("done", i, s,
     Append(o, Msg("error", "Failed to kill port " \o NumStr(ps[i]) \o ": " \o message)),
     "resolved", "", a)

\* killPorts without its catch block: the failure rejects the run.
killPortsCatchRethrow(c, ps, i, s, o, a, message) ==
  St("done", i, s, o, "rejected", message, a)

\* The catch block of killPorts for the i-th port, and the rest of the loop.
killPortsCatch(c, ps, i, s, o, a, message) ==
  killPorts(c, ps, i + 1, s,
            Append(o, Msg("error", "Failed to kill port " \o NumStr(ps[i]) \o ": " \o message)),
            a)

\* The command is built: log it, run it.
killPortsRun(c, ps, i, s, o, a, command) ==
  St("kill", i, Append(s, Call(command, "kill", ps[i])),
     log(c, o, "Executing: " \o CmdStr(command)), "pending", "", a)

\* handlePorts without the default branch: an unknown action falls through.
handlePortsNoDefault(c, ps, s, o) ==
  CASE c.action \in {"check", "isExist"} -> showPortInfo(c, ps, 1, s, o, <<>>)
    [] c.action = "kill" -> killPorts(c, ps, 1, s, o, <<>>)
    [] OTHER -> St("done", 0, s, o, "resolved", "", <<>>)

\* handlePorts whose default branch leaves the promise pending for good.
handlePortsNeverSettles(c, ps, s, o) ==
  CASE c.action \in {"check", "isExist"} -> showPortInfo(c, ps, 1, s, o, <<>>)
    [] c.action = "kill" -> killPorts(c, ps, 1, s, o, <<>>)
    [] OTHER -> St("dispatch", 0, s, o, "pending", "", <<>>)

\* handlePorts sending check and isExist to killPorts.
handlePortsAlwaysKill(c, ps, s, o) ==
  CASE c.action \in {"check", "isExist", "kill"} -> killPorts(c, ps, 1, s, o, <<>>)
    [] OTHER -> St("done", 0, s, o, "rejected", "Unknown action: " \o c.action, <<>>)

handlePorts(c, ps, s, o) ==
  CASE c.action \in {"check", "isExist"} -> showPortInfo(c, ps, 1, s, o, <<>>)
    [] c.action = "kill" -> killPorts(c, ps, 1, s, o, <<>>)
    [] OTHER -> St("done", 0, s, o, "rejected", "Unknown action: " \o c.action, <<>>)

(***************************************************************************)
(* execute()                                                               *)
(***************************************************************************)
\* The report with join(',') for join(', ').
DryRunMessageComma(parsedPorts) ==
  "Dry run: Ports to operate on - "
  \o Join([i \in 1..Len(parsedPorts) |-> NumStr(parsedPorts[i])], ",")

DryRunMessage(parsedPorts) ==
  "Dry run: Ports to operate on - "
  \o Join([i \in 1..Len(parsedPorts) |-> NumStr(parsedPorts[i])], ", ")

\* What the operator may type at the prompt.
Answers ==
  {<<"1">>, <<"1", ",", "2">>, <<"2", ",", "1">>, <<"0", ",", "x", ",", "9">>, <<>>}

\* promptUserToSelectPorts reading the indices as 0-based.
promptUserToSelectPortsZeroBased(activePorts, line) ==
  LET parts == Split(line, ",")
      indices == [i \in 1..Len(parts) |-> StringToNumber(parts[i])]
      InRange(x) == ~x.nan /\ x.n \in 0..(Len(activePorts) - 1)
      picked == SelectSeq(indices, InRange)
      selectedPorts == SelectSeq([i \in 1..Len(picked) |-> activePorts[picked[i].n + 1]],
                                 NonEmptyStr)
  IN [i \in 1..Len(selectedPorts) |-> StringToNumber(selectedPorts[i])]

\* promptUserToSelectPorts resolving with every listed port.
promptUserToSelectPortsAll(activePorts, line) ==
  [i \in 1..Len(activePorts) |-> StringToNumber(activePorts[i])]

\* The ports promptUserToSelectPorts resolves with for an answer.
promptUserToSelectPorts(activePorts, line) ==
  LET parts == Split(line, ",")
      indices == [i \in 1..Len(parts) |-> StringToNumber(parts[i])]
      InRange(x) == ~x.nan /\ x.n \in 1..Len(activePorts)
      picked == SelectSeq(indices, InRange)
      selectedPorts == SelectSeq([i \in 1..Len(picked) |-> activePorts[picked[i].n]],
                                 NonEmptyStr)
  IN [i \in 1..Len(selectedPorts) |-> StringToNumber(selectedPorts[i])]

\* The lines promptUserToSelectPorts prints before the question.
PromptList(activePorts) ==
  [i \in 1..Len(activePorts) |->
     Msg("success", ToString(i) \o ". " \o StrOf(activePorts[i]))]

Init ==
  /\ cfg \in Configs
  /\ pc = "start"
  /\ ports = <<>>
  /\ idx = 0
  /\ active = <<>>
  /\ sh = <<>>
  /\ out = <<>>
  /\ result = "pending"
  /\ err = ""
  /\ attempts = <<>>
  /\ prompts = 0
  /\ answer = <<>>
  /\ prev = NoRun
  /\ suspended = <<>>

\* execute() testing this.interactive before this.dryRun.
ExecuteInteractiveFirst ==
  /\ pc = "start"
  /\ LET parsedPorts == parsePorts(cfg)
     IN IF Len(parsedPorts) = 0
        THEN /\ pc' = "done"
             /\ result' = "rejected"
             /\ err' = "Invalid or no port(s) provided."
             /\ UNCHANGED <<ports, idx, sh, out, attempts>>
        ELSE IF cfg.interactive
        THEN /\ pc' = "list"
             /\ sh' = Append(sh, Call(listCommand(cfg), "list", NoPort))
             /\ UNCHANGED <<ports, idx, out, result, err, attempts>>
        ELSE IF cfg.dryRun
        THEN /\ pc' = "done"
             /\ result' = "resolved"
             /\ out' = Append(out, Msg("success", DryRunMessage(parsedPorts)))
             /\ UNCHANGED <<ports, idx, sh, err, attempts>>
        ELSE /\ ports' = parsedPorts
             /\ Apply(handlePorts(cfg, parsedPorts, sh, out))
  /\ UNCHANGED <<cfg, active, prompts, answer, prev, suspended>>

\* execute() up to its first await.
Execute ==
  /\ pc = "start"
  /\ LET parsedPorts == parsePorts(cfg)
     IN IF Len(parsedPorts) = 0
        THEN /\ pc' = "done"
             /\ result' = "rejected"
             /\ err' = "Invalid or no port(s) provided."
             /\ UNCHANGED <<ports, idx, sh, out, attempts>>
        ELSE IF cfg.dryRun
        THEN /\ pc' = "done"
             /\ result' = "resolved"
             /\ out' = Append(out, Msg("success", DryRunMessage(parsedPorts)))
             /\ UNCHANGED <<ports, idx, sh, err, attempts>>
        ELSE IF cfg.interactive
        THEN /\ pc' = "list"
             /\ sh' = Append(sh, Call(listCommand(cfg), "list", NoPort))
             /\ UNCHANGED <<ports, idx, out, result, err, attempts>>
        ELSE /\ ports' = parsedPorts
             /\ Apply(handlePorts(cfg, parsedPorts, sh, out))
  /\ UNCHANGED <<cfg, active, prompts, answer, prev, suspended>>

\* The listing command of the interactive branch settles.
ListDone ==
  /\ pc = "list"
  /\ \E reply \in Replies("list") :
       /\ sh' = Settle(sh, reply)
       /\ IF reply.ok
          THEN /\ active' = listActivePorts(cfg, reply.stdout)
               /\ out' = out \o PromptList(active')
               /\ prompts' = prompts + 1
               /\ pc' = "prompt"
               /\ UNCHANGED <<result, err>>
          ELSE /\ pc' = "done"
               /\ result' = "rejected"
               /\ err' = "Failed to list active ports: " \o reply.msg
               /\ UNCHANGED <<active, out, prompts>>
  /\ UNCHANGED <<cfg, ports, idx, attempts, answer, prev, suspended>>

\* The operator answers the question.
PromptAnswer ==
  /\ pc = "prompt"
  /\ \E line \in Answers :
       LET selectedPorts == promptUserToSelectPorts(active, line)
       IN /\ answer' = line
          /\ ports' = selectedPorts
          /\ Apply(handlePorts(cfg, selectedPorts, sh, out))
  /\ UNCHANGED <<cfg, active, prompts, prev, suspended>>

\* The probe of showPortInfo for the current port settles.
CheckDone ==
  /\ pc = "check"
  /\ \E reply \in ProbeReplies :
       LET port == ports[idx]
           isActive == checkPortStatus(cfg, reply)
       IN Apply(showPortInfo(cfg, ports, idx + 1, Settle(sh, reply),
                             Append(out, showPortInfoReport(port, isActive)), attempts))
  /\ UNCHANGED <<cfg, ports, active, prompts, answer, prev, suspended>>

\* Unix: the probe of checkIfProcessExists for the current port settles.
ExistsDone ==
  /\ pc = "exists"
  /\ \E reply \in Replies("exists") :
       LET command == getUnixKillCommand(ports[idx], cfg.method, cfg.graceful, reply)
       IN IF command.threw
          THEN Apply(killPortsCatch(cfg, ports, idx, Settle(sh, reply), out, attempts,
                                    command.message))
          ELSE Apply(killPortsRun(cfg, ports, idx, Settle(sh, reply), out, attempts,
                                  command.value))
  /\ UNCHANGED <<cfg, ports, active, prompts, answer, prev, suspended>>

\* win32: the netstat of getWindowsKillCommand for the current port settles.
NetstatDone ==
  /\ pc = "netstat"
  /\ \E reply \in Replies("netstat") :
       LET command == getWindowsKillCommand(ports[idx], cfg.method, reply)
       IN IF command.threw
          THEN Apply(killPortsCatch(cfg, ports, idx, Settle(sh, reply), out, attempts,
                                    command.message))
          ELSE Apply(killPortsRun(cfg, ports, idx, Settle(sh, reply), out, attempts,
                                  command.value))
  /\ UNCHANGED <<cfg, ports, active, prompts, answer, prev, suspended>>

\* The kill command of the current port settles.
KillDone ==
  /\ pc = "kill"
  /\ \E reply \in Replies("kill") :
       IF reply.ok
       THEN Apply(killPorts(cfg, ports, idx + 1, Settle(sh, reply),
                            Append(out, Msg("success",
                                            "Successfully killed port " \o NumStr(ports[idx])
                                            \o " " \o StdoutStr(reply.stdout))),
                            attempts))
       ELSE Apply(killPortsCatch(cfg, ports, idx, Settle(sh, reply), out, attempts,
                                 reply.msg))
  /\ UNCHANGED <<cfg, ports, active, prompts, answer, prev, suspended>>

\* runPortClient is called again with the same arguments once a check
\* that went straight to dispatch has resolved: a new PortClient with the
\* same fields, nothing carried over.
Rerun ==
  /\ pc = "done"
  /\ result = "resolved"
  /\ ~prev.taken
  /\ cfg.action \in {"check", "isExist"}
  /\ ~cfg.dryRun
  /\ ~cfg.interactive
  /\ prev' = [taken |-> TRUE, sh |-> sh, out |-> out]
  /\ pc' = "start"
  /\ ports' = <<>>
  /\ idx' = 0
  /\ active' = <<>>
  /\ sh' = <<>>
  /\ out' = <<>>
  /\ result' = "pending"
  /\ err' = ""
  /\ attempts' = <<>>
  /\ prompts' = 0
  /\ answer' = <<>>
  /\ UNCHANGED <<cfg, suspended>>

Next ==
  \/ Execute
  \/ ListDone
  \/ PromptAnswer
  \/ CheckDone
  \/ ExistsDone
  \/ NetstatDone
  \/ KillDone
  \/ Rerun

Spec == Init /\ [][Next]_vars

(***************************************************************************)
(* The command-line driver (src/cli.js): one runPortClient call per port   *)
(* argument, all with the same options, joined by Promise.all.  One        *)
(* invocation runs at a time, up to its next await; the others stand       *)
(* suspended.                                                              *)
(***************************************************************************)
\* An invocation as it stands: its PortClient and the position of its run.
Invocation(c, p, ps, i, a, s, o, r, e, at, pr, an) ==
  [cfg |-> c, pc |-> p, ports |-> ps, idx |-> i, active |-> a, sh |-> s, out |-> o,
   result |-> r, err |-> e, attempts |-> at, prompts |-> pr, answer |-> an]

\* The two invocations working on one PortClient, the one constructed last.
OwnSharedClient ==
  Invocation(suspended[1].cfg, pc, ports, idx, active, sh, out, result, err, attempts,
             prompts, answer)

\* The running invocation.
Own ==
  Invocation(cfg, pc, ports, idx, active, sh, out, result, err, attempts, prompts, answer)

\* The options the driver builds from the arguments, for one port argument.
CliConfigs ==
  {c \in Configs :
     /\ ~c.ports.isArray
     /\ c.ports.v \in PortVals
     /\ c.range \in {NoRange, RangeStr(<<"8", "0", "-", "8", "1">>)}
     /\ ~c.interactive}

\* Two port arguments; the first invocation is about to run.
CliInit ==
  /\ cfg \in CliConfigs
  /\ pc = "start"
  /\ ports = <<>>
  /\ idx = 0
  /\ active = <<>>
  /\ sh = <<>>
  /\ out = <<>>
  /\ result = "pending"
  /\ err = ""
  /\ attempts = <<>>
  /\ prompts = 0
  /\ answer = <<>>
  /\ prev = NoRun
  /\ \E v \in PortVals :
       suspended = <<Invocation([cfg EXCEPT !.ports = PortsSingle(v)], "start", <<>>, 0,
                                <<>>, <<>>, <<>>, "pending", "", <<>>, 0, <<>>)>>

\* The running invocation stands at an await or is over, and the event
\* loop goes on with the other one, which is not over.
Switch ==
  /\ suspended # <<>>
  /\ pc # "start"
  /\ suspended[1].pc # "done"
  /\ suspended' = <<Own>>
  /\ cfg' = suspended[1].cfg
  /\ pc' = suspended[1].pc
  /\ ports' = suspended[1].ports
  /\ idx' = suspended[1].idx
  /\ active' = suspended[1].active
  /\ sh' = suspended[1].sh
  /\ out' = suspended[1].out
  /\ result' = suspended[1].result
  /\ err' = suspended[1].err
  /\ attempts' = suspended[1].attempts
  /\ prompts' = suspended[1].prompts
  /\ answer' = suspended[1].answer
  /\ UNCHANGED prev

CliNext ==
  \/ Execute
  \/ CheckDone
  \/ ExistsDone
  \/ NetstatDone
  \/ KillDone
  \/ Switch

CliSpec == CliInit /\ [][CliNext]_vars

\* The run whose collaborators all answer: execute() is run once called,
\* every shell command issued completes (resolves or rejects) and the
\* operator answers the question.
\* The options that steer no branch of a run are fixed, and ports is an
\* array of MaxPorts entries, each a port or not.
FairConfigs ==
  {c \in Configs :
     /\ c.ports.isArray
     /\ Len(c.ports.items) = MaxPorts
     /\ \A i \in 1..MaxPorts : c.ports.items[i] \in {JsNum(80), JsStr(<<"x">>)}
     /\ c.method = "tcp"
     /\ c.speed = "safe"
     /\ ~c.verbose
     /\ ~c.graceful}

FairInit ==
  /\ cfg \in FairConfigs
  /\ pc = "start"
  /\ ports = <<>>
  /\ idx = 0
  /\ active = <<>>
  /\ sh = <<>>
  /\ out = <<>>
  /\ result = "pending"
  /\ err = ""
  /\ attempts = <<>>
  /\ prompts = 0
  /\ answer = <<>>
  /\ prev = NoRun
  /\ suspended = <<>>

FairSpec ==
  /\ FairInit
  /\ [][Next]_vars
  /\ WF_vars(Execute)
  /\ WF_vars(ListDone)
  /\ WF_vars(PromptAnswer)
  /\ WF_vars(CheckDone)
  /\ WF_vars(ExistsDone)
  /\ WF_vars(NetstatDone)
  /\ WF_vars(KillDone)

(***************************************************************************)
(* Properties                                                              *)
(***************************************************************************)
Range(s) == {s[i] : i \in 1..Len(s)}

KnownActions == {"check", "isExist", "kill"}

\* A termination command: one of its words is kill or TaskKill.
IsTermination(cmd) == \E k \in 1..Len(cmd) : cmd[k] \in {"kill", "TaskKill"}

\* An existence check that found no process owning the port of the call:
\* the Unix probe printed nothing, or the Windows table has no row of the
\* configured protocol with that local port.
NoOwner(call) ==
  /\ call.st = "resolved"
  /\ \/ call.purpose = "exists" /\ ~TrimNonEmpty(call.stdout)
     \/ /\ call.purpose = "netstat"
        /\ \A k \in 1..Len(call.stdout) :
             ~(/\ call.stdout[k].k = "win"
               /\ StrOf(call.stdout[k].proto) = ToUpperCase(cfg.method)
               /\ StrOf(call.stdout[k].lport) = NumStr(call.port))

\* C1: on every platform, a kill attempt on a port whose existence check
\* finds no owning process is reported as failed with the no-process error,
\* and no termination command follows it.
C1_NoOwnerNoTermination ==
  \A i \in 1..Len(sh) :
    NoOwner(sh[i]) =>
      /\ Msg("error", "Failed to kill port " \o NumStr(sh[i].port)
                      \o ": No process running on port") \in Range(out)
      /\ i < Len(sh) => ~IsTermination(sh[i + 1].cmd)

\* The ports of the calls that begin an iteration of killPorts.
FirstCallPorts ==
  LET Begins(call) == call.purpose \in {"exists", "netstat"}
      firsts == SelectSeq(sh, Begins)
  IN [i \in 1..Len(firsts) |-> firsts[i].port]

\* C2: in a kill run every port is attempted exactly once and in input
\* order, whatever the outcome of the earlier ports.
C2_EveryPortAttempted ==
  cfg.action = "kill" =>
    /\ Len(attempts) <= Len(ports)
    /\ attempts = SubSeq(ports, 1, Len(attempts))
    /\ FirstCallPorts = attempts
    /\ (pc = "done" /\ result = "resolved" /\ ~cfg.dryRun) =>
         /\ attempts = ports
         /\ ~cfg.interactive => ports = parsePorts(cfg)

\* A kill run of two ports is over, the first port having failed.
C2_Witness ==
  /\ cfg.action = "kill"
  /\ pc = "done"
  /\ Len(ports) = 2
  /\ attempts = ports
  /\ sh[1].st = "rejected"
  /\ Len(sh) >= 2

\* C3 as stated: execute() rejects only when the resolved port set is empty
\* or the action is unknown, and resolves in every other configuration.
C3_RejectsOnlyEmptyOrUnknown ==
  (pc = "done" /\ result = "rejected") =>
    (Len(parsePorts(cfg)) = 0 \/ cfg.action \notin KnownActions)

ListingFailed ==
  /\ Len(sh) = 1
  /\ sh[1].purpose = "list"
  /\ sh[1].st = "rejected"

\* C3 amended: a finished run has rejected exactly when the resolved port
\* set is empty, or (no dry run) the interactive listing command rejected,
\* or (no dry run) dispatch met an unknown action; otherwise it has
\* resolved, whatever the probes and termination commands did.
C3_RejectionCauses ==
  pc = "done" =>
    /\ result \in {"resolved", "rejected"}
    /\ result = "rejected" <=>
         \/ Len(parsePorts(cfg)) = 0
         \/ ~cfg.dryRun /\ cfg.interactive /\ ListingFailed
         \/ ~cfg.dryRun /\ cfg.action \notin KnownActions
    /\ result = "rejected" =>
         err = (IF Len(parsePorts(cfg)) = 0 THEN "Invalid or no port(s) provided."
                ELSE IF cfg.interactive /\ ListingFailed
                THEN "Failed to list active ports: " \o sh[1].msg
                ELSE "Unknown action: " \o cfg.action)

\* A run with valid ports and a known action has rejected (the listing
\* failed), and another has resolved although a command of it failed.
C3_Witness ==
  /\ pc = "done"
  /\ Len(parsePorts(cfg)) > 0
  /\ cfg.action = "kill"
  /\ cfg.interactive
  /\ result = "rejected"
  /\ ListingFailed

RECURSIVE CommaSpaceList(_)
CommaSpaceList(ns) ==
  IF ns = <<>> THEN ""
  ELSE IF Len(ns) = 1 THEN NumStr(ns[1])
  ELSE NumStr(ns[1]) \o ", " \o CommaSpaceList(Tail(ns))

\* C4: with dryRun and a non-empty resolved port set, the shell primitive is
\* never invoked, the prompt is never opened, and the one report is
\* 'Dry run: Ports to operate on - ' followed by the resolved ports joined
\* by ", ".
C4_DryRunNoCommands ==
  (cfg.dryRun /\ Len(parsePorts(cfg)) > 0) =>
    /\ sh = <<>>
    /\ prompts = 0
    /\ pc = "done" =>
         /\ result = "resolved"
         /\ out = <<Msg("success", "Dry run: Ports to operate on - "
                                   \o CommaSpaceList(parsePorts(cfg)))>>

\* A dry run over two ports has reported, interactive set as well.
C4_Witness ==
  /\ cfg.dryRun
  /\ cfg.interactive
  /\ cfg.action = "kill"
  /\ pc = "done"
  /\ out = <<Msg("success", "Dry run: Ports to operate on - 80, 81")>>

\* A port value that is no port: null, zero, or a string that is not a
\* non-zero decimal number.
NoPortValue(v) ==
  \/ v.k = "null"
  \/ v.k = "num" /\ v.n = 0
  \/ /\ v.k = "str"
     /\ LET digits == IF v.s # <<>> /\ v.s[1] = "-" THEN Tail(v.s) ELSE v.s
        IN ~IsDigits(digits) \/ DecVal(digits) = 0

\* A range one of whose two bounds is missing or not a decimal number.
NonNumericRange(r) ==
  /\ ~r.isNull
  /\ r.s # <<>>
  /\ LET parts == Split(r.s, "-")
     IN Len(parts) < 2 \/ ~IsDigits(parts[1]) \/ ~IsDigits(parts[2])

\* The specs the claim lists as resolving to nothing.
EmptySpec(c) ==
  IF c.ports.isArray
  THEN \A i \in 1..Len(c.ports.items) : NoPortValue(c.ports.items[i])
  ELSE IF ~c.range.isNull /\ c.range.s # <<>>
  THEN NonNumericRange(c.range)
  ELSE NoPortValue(c.ports.v)

\* C5: whenever the port spec resolves to nothing, execute() rejects with
\* 'Invalid or no port(s) provided.' before any shell command and any prompt.
C5_EmptySpecRejects ==
  (EmptySpec(cfg) \/ Len(parsePorts(cfg)) = 0) =>
    /\ sh = <<>>
    /\ prompts = 0
    /\ out = <<>>
    /\ pc \in {"start", "done"}
    /\ pc = "done" => (result = "rejected" /\ err = "Invalid or no port(s) provided.")

\* An interactive kill run over a range with a non-numeric bound has been
\* rejected.
C5_Witness ==
  /\ pc = "done"
  /\ ~cfg.ports.isArray
  /\ NonNumericRange(cfg.range)
  /\ cfg.interactive
  /\ cfg.action = "kill"
  /\ result = "rejected"
  /\ err = "Invalid or no port(s) provided."
\* C6 as stated: with a non-empty resolved port set and an action that is
\* none of check, isExist, kill, the run is rejected with 'Unknown action',
\* whatever dryRun and interactive are.
C6_UnknownActionAlwaysRejects ==
  (pc = "done" /\ Len(parsePorts(cfg)) > 0 /\ cfg.action \notin KnownActions) =>
    (result = "rejected" /\ err = "Unknown action: " \o cfg.action)

\* C6 amended: such a run is rejected whenever dryRun is false, with
\* 'Unknown action: <action>' unless the interactive listing command
\* rejected (then with the listing error), and no per-port command is ever
\* issued; with dryRun true it resolves after the dry-run report.
C6_UnknownActionRejectsUnlessDryRun ==
  (Len(parsePorts(cfg)) > 0 /\ cfg.action \notin KnownActions) =>
    /\ \A i \in 1..Len(sh) : sh[i].purpose = "list"
    /\ pc = "done" =>
         IF cfg.dryRun
         THEN result = "resolved" /\ sh = <<>> /\ Len(out) = 1
         ELSE /\ result = "rejected"
              /\ err = (IF cfg.interactive /\ ListingFailed
                        THEN "Failed to list active ports: " \o sh[1].msg
                        ELSE "Unknown action: " \o cfg.action)

\* Unknown action: an interactive run has been rejected at dispatch after
\* the operator selected a port.
C6_Witness ==
  /\ pc = "done"
  /\ cfg.action \notin KnownActions
  /\ ~cfg.dryRun
  /\ cfg.interactive
  /\ prompts = 1
  /\ Len(ports) > 0
  /\ result = "rejected"
  /\ err = "Unknown action: restart"

\* C7: in a kill run, every command that the shell primitive rejects with
\* message M while port P is being killed is reported as
\* 'Failed to kill port P: M', and the run still resolves.
C7_FailureCarriesCause ==
  cfg.action = "kill" =>
    /\ \A i \in 1..Len(sh) :
         (sh[i].st = "rejected" /\ sh[i].purpose \in {"exists", "netstat", "kill"}) =>
           Msg("error", "Failed to kill port " \o NumStr(sh[i].port) \o ": " \o sh[i].msg)
             \in Range(out)
    /\ (pc = "done" /\ Len(ports) > 0) => result = "resolved"

\* The index of the last "|" of a command, 0 if it has none.
LastPipe(cmd) ==
  IF \A k \in 1..Len(cmd) : cmd[k] # "|" THEN 0
  ELSE CHOOSE k \in 1..Len(cmd) : cmd[k] = "|" /\ \A j \in (k + 1)..Len(cmd) : cmd[j] # "|"

\* A pipeline whose head names <method>:<port> and whose last stage is the
\* termination invocation of the given strength.
IsKillPipeline(cmd, method, port, graceful) ==
  LET k == LastPipe(cmd)
      last == SubSeq(cmd, k + 1, Len(cmd))
  IN /\ k > 1
     /\ \E j \in 1..(k - 1) : cmd[j] = method \o ":" \o NumStr(port)
     /\ last \in (IF graceful THEN {<<"kill">>, <<"xargs", "kill">>}
                  ELSE {<<"kill", "-9">>, <<"xargs", "kill", "-9">>})

\* C8: on Unix-like platforms the command executed for a port whose
\* existence check succeeded is a pipeline from the process ids owning
\* (protocol, port) into kill (graceful) or kill -9, and its success is
\* reported as 'Successfully killed port <port> <stdout>'.
C8_UnixKillPipeline ==
  cfg.platform # "win32" =>
    \A i \in 1..Len(sh) :
      sh[i].purpose = "kill" =>
        /\ IsKillPipeline(sh[i].cmd, cfg.method, sh[i].port, cfg.graceful)
        /\ sh[i].st = "resolved" =>
             Msg("success", "Successfully killed port " \o NumStr(sh[i].port) \o " "
                            \o StdoutStr(sh[i].stdout)) \in Range(out)

IsExistenceFetch(call) == call.purpose \in {"list", "check", "exists", "netstat"}

IsCheckProbe(call) == call.purpose = "check"

IsListing(call) == call.purpose = "list"

Reports == SubSeq(out, Len(active) + 1, Len(out))

C10_FastActiveIffListen ==
  (cfg.speed = "fast" /\ cfg.action \in {"check", "isExist"} /\ ~cfg.dryRun) =>
    LET probes == SelectSeq(sh, IsCheckProbe)
    IN \A i \in 1..Len(Reports) :
         probes[i].st = "resolved" =>
           (Reports[i] = Msg("success", "Port " \o NumStr(ports[i]) \o " is active.")
              <=> HasListen(probes[i].stdout))

\* C11: in both speed modes the existence check of a check/isExist run never
\* fails outward: a probe that the shell primitive rejects makes its port
\* reported 'is not active', no error is ever reported, the run does not
\* reject because of it, and the ports after it are still probed.
C11_CheckNeverFailsOutward ==
  (cfg.action \in {"check", "isExist"} /\ ~cfg.dryRun) =>
    LET probes == SelectSeq(sh, IsCheckProbe)
    IN /\ \A i \in 1..Len(out) : out[i].level # "error"
       /\ \A i \in 1..Len(Reports) :
            probes[i].st = "rejected" =>
              Reports[i] = Msg("success", "Port " \o NumStr(ports[i]) \o " is not active.")
       /\ (pc = "done" /\ Len(parsePorts(cfg)) > 0
            /\ ~(cfg.interactive /\ ListingFailed)) =>
            /\ result = "resolved"
            /\ Len(probes) = Len(ports)
            /\ \A i \in 1..Len(ports) : probes[i].port = ports[i]

\* A fast check of two ports is over: the probe of the first port was
\* rejected, the second port was probed all the same and found active.
C11_Witness ==
  /\ cfg.speed = "fast"
  /\ cfg.action = "isExist"
  /\ pc = "done"
  /\ Len(ports) = 2
  /\ Len(sh) = 2
  /\ sh[1].st = "rejected"
  /\ sh[2].st = "resolved"
  /\ out[2] = Msg("success", "Port " \o NumStr(ports[2]) \o " is active.")

\* A port value that denotes a number above zero, and that number.
IsPositiveValue(v) ==
  \/ v.k = "num" /\ v.n > 0
  \/ v.k = "str" /\ IsDigits(v.s) /\ DecVal(v.s) > 0

ValueOf(v) == IF v.k = "num" THEN v.n ELSE DecVal(v.s)

\* A run that goes from parsePorts straight to dispatch.
Dispatched == pc = "done" /\ ~cfg.dryRun /\ ~cfg.interactive

\* C12: a single port value P > 0 given without a range resolves to the
\* one-element sequence [P], and that is what the run operates on.
C12_SinglePortResolves ==
  (~cfg.ports.isArray /\ cfg.range.isNull /\ IsPositiveValue(cfg.ports.v)) =>
    /\ parsePorts(cfg) = <<Num(ValueOf(cfg.ports.v))>>
    /\ Dispatched => ports = <<Num(ValueOf(cfg.ports.v))>>

\* A check of the single port '81' is over: its one probe was for port 81.
C12_Witness ==
  /\ cfg.ports = PortsSingle(JsStr(<<"8", "1">>))
  /\ cfg.range.isNull
  /\ cfg.action = "check"
  /\ Dispatched
  /\ ports = <<Num(81)>>
  /\ Len(sh) = 1
  /\ sh[1].port = Num(81)

\* The bounds A, B of a range string 'A-B' of two decimal numbers.
IsNumericRange(r) ==
  /\ ~r.isNull
  /\ LET parts == Split(r.s, "-")
     IN Len(parts) = 2 /\ IsDigits(parts[1]) /\ IsDigits(parts[2])

RangeA(r) == DecVal(Split(r.s, "-")[1])

RangeB(r) == DecVal(Split(r.s, "-")[2])

\* C13: with ports not an array, a range 'A-B' with A <= B resolves to the
\* ascending consecutive integers A, A+1, ..., B: B-A+1 of them.
C13_RangeResolves ==
  (~cfg.ports.isArray /\ IsNumericRange(cfg.range) /\ RangeA(cfg.range) <= RangeB(cfg.range)) =>
    LET p == parsePorts(cfg)
    IN /\ Len(p) = RangeB(cfg.range) - RangeA(cfg.range) + 1
       /\ p[1] = Num(RangeA(cfg.range))
       /\ p[Len(p)] = Num(RangeB(cfg.range))
       /\ \A i \in 1..(Len(p) - 1) : ~p[i].nan /\ p[i + 1] = Num(p[i].n + 1)
       /\ Dispatched => ports = p

\* A kill run over the range '80-81' is over, having attempted 80 then 81;
\* the range '81-81' resolves to the one port 81.
C13_Witness ==
  /\ ~cfg.ports.isArray
  /\ cfg.range = RangeStr(<<"8", "0", "-", "8", "1">>)
  /\ cfg.action = "kill"
  /\ Dispatched
  /\ attempts = <<Num(80), Num(81)>>

\* The entries of an array that are numbers other than zero, coerced, in
\* their order.
RECURSIVE ValidEntries(_)
ValidEntries(items) ==
  IF items = <<>> THEN <<>>
  ELSE (IF NoPortValue(items[1]) THEN <<>>
        ELSE <<Num(IF items[1].k = "num" THEN items[1].n
                   ELSE IF items[1].s[1] = "-" THEN 0 - DecVal(Tail(items[1].s))
                   ELSE DecVal(items[1].s))>>)
       \o ValidEntries(Tail(items))

\* C14: an array of port values resolves to the numeric coercion of exactly
\* its entries that are neither zero nor non-numeric, in their original
\* order.
C14_ArrayKeepsValidEntries ==
  cfg.ports.isArray =>
    /\ parsePorts(cfg) = ValidEntries(cfg.ports.items)
    /\ (Dispatched /\ cfg.action \in KnownActions) => ports = ValidEntries(cfg.ports.items)

\* A check of the array [0, '81'] is over: port 81 alone was probed.
C14_Witness ==
  /\ cfg.ports = PortsArray(<<JsNum(0), JsStr(<<"8", "1">>)>>)
  /\ cfg.action = "check"
  /\ Dispatched
  /\ ports = <<Num(81)>>
  /\ Len(sh) = 1

\* C15: the resolved port sequence never holds the same port twice, so no
\* port is operated on more than once in a run.
C15_ResolvedPortsDistinct ==
  /\ pc # "start" =>
       \A i, j \in 1..Len(parsePorts(cfg)) :
         i # j => parsePorts(cfg)[i] # parsePorts(cfg)[j]
  /\ ~cfg.interactive =>
       \A i, j \in 1..Len(sh) :
         (i # j /\ sh[i].purpose = sh[j].purpose) => sh[i].port # sh[j].port

\* C16: either resolution fails or every resolved port is an integer in
\* 1..65535, and no other port is ever passed to a probe or termination
\* command.
C16_PortsWithinRange ==
  /\ pc # "start" =>
       \A i \in 1..Len(parsePorts(cfg)) :
         ~parsePorts(cfg)[i].nan /\ parsePorts(cfg)[i].n \in 1..65535
  /\ \A i \in 1..Len(sh) :
       sh[i].purpose \in {"check", "exists", "netstat", "kill"} =>
         (~sh[i].port.nan /\ sh[i].port.n \in 1..65535)

\* The ports an answer selects from the listed ports: field by field, the
\* port listed under a 1-based index, nothing for a field that is no
\* index of the list.
RECURSIVE SelectedByIndex(_, _)
SelectedByIndex(listed, fields) ==
  IF fields = <<>> THEN <<>>
  ELSE (IF IsDigits(fields[1]) /\ DecVal(fields[1]) \in 1..Len(listed)
        THEN <<LET token == listed[DecVal(fields[1])]
               IN IF IsDigits(token) THEN Num(DecVal(token)) ELSE NaN>>
        ELSE <<>>)
       \o SelectedByIndex(listed, Tail(fields))

\* The interactive run got its answer.
Answered == cfg.interactive /\ prompts = 1 /\ pc \notin {"start", "list", "prompt"}

\* C17: the interactive selection maps the comma-separated answer to ports
\* by 1-based index into the listed active ports, in the order typed,
\* dropping the indices that are out of range or not numbers; the action
\* runs on exactly those ports.
C17_SelectionByIndex ==
  Answered =>
    /\ ports = SelectedByIndex(active, Split(answer, ","))
    /\ cfg.action = "kill" => attempts = SubSeq(ports, 1, Len(attempts))
    /\ (pc = "done" /\ cfg.action = "kill") => attempts = ports
    /\ (pc = "done" /\ cfg.action \in {"check", "isExist"}) =>
         Len(SelectSeq(sh, IsCheckProbe)) = Len(ports)

\* The operator answered '2,1' to a list of four: the second listed port
\* was killed before the first; and '0,x,9' selects nothing.
C17_Witness ==
  /\ Answered
  /\ cfg.action = "kill"
  /\ pc = "done"
  /\ Len(active) = 4
  /\ answer = <<"2", ",", "1">>
  /\ attempts = <<Num(5000), Num(80)>>

Listed == Len(sh) >= 1 /\ sh[1].purpose = "list" /\ sh[1].st = "resolved" /\ pc # "list"

\* C18: on a Unix-like platform in safe mode, listActivePorts returns every
\* port that the listing shows as a local address ':<port>' in LISTEN
\* state, as a string, and returns nothing but 1-5 digit port tokens.
C18_UnixListingFindsListenPorts ==
  (cfg.platform # "win32" /\ cfg.speed = "safe" /\ Listed) =>
    /\ \A k \in 1..Len(sh[1].stdout) :
         LET l == sh[1].stdout[k]
         IN (/\ l.k \in {"lsof", "netstat"}
             /\ IsPortToken(l.lport)
             /\ l.rport = <<>>
             /\ l.state \in {"LISTEN", "(LISTEN)"}) =>
              \E j \in 1..Len(active) : active[j] = l.lport
    /\ \A j \in 1..Len(active) : IsPortToken(active[j])

\* C19: on win32, listActivePorts returns exactly once, as a string, every
\* port that a line of the listing shows after the selected protocol as
\* the local address ':<port>', however many lines show it.
C19_WindowsListingDistinctPorts ==
  (cfg.platform = "win32" /\ Listed) =>
    \A k \in 1..Len(sh[1].stdout) :
      LET l == sh[1].stdout[k]
      IN (l.k = "win" /\ StrOf(l.proto) = ToUpperCase(cfg.method) /\ IsDigits(l.lport)) =>
           Cardinality({j \in 1..Len(active) : active[j] = l.lport}) = 1

\* C21: execute() takes its stages in the order empty-spec check, dry run,
\* interactive, dispatch.  An empty resolved set rejects the run before any
\* report, listing or prompt, whatever dryRun and interactive are; a dry
\* run reports and resolves without listing or prompt even when interactive
\* is set, and without looking at the action; an interactive run lists
\* before anything is dispatched.
C21_StageOrder ==
  /\ Len(parsePorts(cfg)) = 0 =>
       /\ sh = <<>> /\ out = <<>> /\ prompts = 0
       /\ pc = "done" => (result = "rejected" /\ err = "Invalid or no port(s) provided.")
  /\ (Len(parsePorts(cfg)) > 0 /\ cfg.dryRun) =>
       /\ sh = <<>> /\ prompts = 0 /\ active = <<>>
       /\ pc = "done" => (result = "resolved" /\ Len(out) = 1)
  /\ (Len(parsePorts(cfg)) > 0 /\ ~cfg.dryRun /\ cfg.interactive /\ sh # <<>>) =>
       /\ sh[1].purpose = "list"
       /\ \A i \in 2..Len(sh) : sh[i].purpose # "list" /\ prompts = 1
  /\ (~cfg.interactive \/ cfg.dryRun) => \A i \in 1..Len(sh) : sh[i].purpose # "list"

\* With dryRun, interactive and an unknown action all set, the run over a
\* non-empty port set has resolved on its dry-run report.
C21_Witness ==
  /\ cfg.dryRun
  /\ cfg.interactive
  /\ cfg.action \notin KnownActions
  /\ Len(parsePorts(cfg)) > 0
  /\ pc = "done"
  /\ result = "resolved"
  /\ sh = <<>>
  /\ Len(out) = 1

\* The reports of the per-port loop, the log lines of a verbose run aside.
PortReports ==
  LET NotLog(m) == m.level # "log"
  IN SelectSeq(Reports, NotLog)

\* What a kill of port p may be reported as.
KillReportsOf(p) ==
  {Msg("success", "Successfully killed port " \o NumStr(p) \o " " \o StdoutStr(KilledOut))}
  \cup {Msg("error", "Failed to kill port " \o NumStr(p) \o ": " \o m) :
          m \in ErrMsgs
                \cup {"No process running on port",
                      "Failed to check if process exists on port " \o NumStr(p)}
                \cup {"Failed to get Windows kill command: " \o e : e \in ErrMsgs}}

\* What a check of port p may be reported as.
CheckReportsOf(p) ==
  {Msg("success", "Port " \o NumStr(p) \o " is active."),
   Msg("success", "Port " \o NumStr(p) \o " is not active.")}

\* The calls issued for single ports, in the order issued.
PortCalls ==
  LET ForPort(call) == call.purpose # "list"
  IN SelectSeq(sh, ForPort)

\* C22: the ports of a run are processed one after the other.  At most one
\* command is in flight, and it is the last one issued; the commands of a
\* port are issued after every command of the ports before it has
\* completed; and the per-port reports come in the order of the ports, the
\* report of a port before the first command of the next.
C22_Sequential ==
  /\ \A i \in 1..(Len(sh) - 1) : sh[i].st # "pending"
  /\ (sh # <<>> /\ sh[Len(sh)].st = "pending") <=>
       pc \in {"list", "check", "exists", "netstat", "kill"}
  /\ (~cfg.dryRun /\ cfg.action \in KnownActions) =>
       LET inProgress == IF pc \in {"check", "exists", "netstat", "kill"} THEN 1 ELSE 0
           begun == IF cfg.action = "kill" THEN FirstCallPorts
                    ELSE [i \in 1..Len(PortCalls) |-> PortCalls[i].port]
       IN /\ Len(begun) <= Len(ports)
          /\ begun = SubSeq(ports, 1, Len(begun))
          /\ \A i \in 2..Len(PortCalls) :
               PortCalls[i].purpose = "kill" =>
                 /\ PortCalls[i - 1].purpose \in {"exists", "netstat"}
                 /\ PortCalls[i - 1].port = PortCalls[i].port
          /\ Len(PortReports) = Len(begun) - inProgress
          /\ \A j \in 1..Len(PortReports) :
               PortReports[j] \in (IF cfg.action = "kill" THEN KillReportsOf(ports[j])
                                   ELSE CheckReportsOf(ports[j]))

\* A kill of ports 80 and 81 is over: 80 was probed and killed, then 81
\* was probed and found without a process, and the reports are in that
\* order.
C22_Witness ==
  /\ cfg.action = "kill"
  /\ pc = "done"
  /\ ports = <<Num(80), Num(81)>>
  /\ Len(sh) = 3
  /\ sh[2].purpose = "kill"
  /\ sh[3].port = Num(81)
  /\ PortReports =
       <<Msg("success", "Successfully killed port 80 " \o StdoutStr(KilledOut)),
         Msg("error", "Failed to kill port 81: No process running on port")>>

\* The rows of a Windows listing that show the protocol and the local port.
RowsOfPort(stdout, method, port) ==
  LET Shows(l) == /\ l.k = "win"
                  /\ StrOf(l.proto) = ToUpperCase(method)
                  /\ StrOf(l.lport) = NumStr(port)
  IN SelectSeq(stdout, Shows)

\* C23: on win32 the kill command of port P is 'TaskKill /F' followed by
\* one '/PID <pid>' for every line of the listing that shows the configured
\* protocol and port P, <pid> being the process id that ends the line; no
\* such line is left out, consecutive ones included.
C23_WindowsKillCommand ==
  cfg.platform = "win32" =>
    \A i \in 2..Len(sh) :
      (sh[i].purpose = "kill" /\ sh[i - 1].purpose = "netstat") =>
        LET rows == RowsOfPort(sh[i - 1].stdout, cfg.method, sh[i].port)
        IN sh[i].cmd = <<"TaskKill", "/F">>
                       \o FlatMap([k \in 1..Len(rows) |-> <<"/PID", StrOf(rows[k].pid)>>])

\* C24: a rejected listing command is a hard stop (the interactive run
\* rejects with 'Failed to list active ports: <message>', nothing is asked
\* and nothing else is issued), whereas a rejected single-port probe makes
\* that port inactive and no more: a check reports it 'is not active', a
\* kill reports it as having no process and issues no termination command
\* for it, and the ports after it are processed.
C24_ListingHardStopProbeSoft ==
  /\ (Len(sh) >= 1 /\ sh[1].purpose = "list" /\ sh[1].st = "rejected") =>
       /\ pc = "done"
       /\ result = "rejected"
       /\ err = "Failed to list active ports: " \o sh[1].msg
       /\ prompts = 0
       /\ Len(sh) = 1
       /\ out = <<>>
  /\ \A i \in 1..Len(sh) :
       (sh[i].st = "rejected" /\ sh[i].purpose \in {"check", "exists"}) =>
         /\ IF sh[i].purpose = "check"
            THEN Msg("success", "Port " \o NumStr(sh[i].port) \o " is not active.")
                   \in Range(out)
            ELSE Msg("error", "Failed to kill port " \o NumStr(sh[i].port)
                              \o ": No process running on port") \in Range(out)
         /\ i < Len(sh) => ~IsTermination(sh[i + 1].cmd)
         /\ pc = "done" => result = "resolved"

\* A range option is set: neither null nor the empty string.
RangeSet(c) == ~c.range.isNull /\ c.range.s # <<>>

\* C25: resolution takes the array if ports is an array, whatever the range
\* and even if the array resolves to nothing; otherwise the range if one is
\* set, whatever the single value; otherwise the single value.
C25_ResolutionPrecedence ==
  /\ cfg.ports.isArray =>
       /\ parsePorts(cfg) = ValidEntries(cfg.ports.items)
       /\ \A r \in Ranges \cup {NoRange} :
            parsePorts([cfg EXCEPT !.range = r]) = parsePorts(cfg)
  /\ (~cfg.ports.isArray /\ RangeSet(cfg)) =>
       /\ \A v \in SingleVals :
            parsePorts([cfg EXCEPT !.ports = PortsSingle(v)]) = parsePorts(cfg)
       /\ IsNumericRange(cfg.range) =>
            \A i \in 1..Len(parsePorts(cfg)) :
              parsePorts(cfg)[i] = Num(RangeA(cfg.range) + i - 1)
  /\ (~cfg.ports.isArray /\ ~RangeSet(cfg)) =>
       parsePorts(cfg) = (IF NoPortValue(cfg.ports.v) THEN <<>>
                          ELSE <<Num(ValueOf(cfg.ports.v))>>)
  /\ (Dispatched /\ cfg.action \in KnownActions) => ports = parsePorts(cfg)

\* The run with the empty array and the range '80-81' has been rejected
\* for want of ports: the range was not looked at.
C25_Witness ==
  /\ cfg.ports = PortsArray(<<>>)
  /\ cfg.range = RangeStr(<<"8", "0", "-", "8", "1">>)
  /\ pc = "done"
  /\ result = "rejected"
  /\ err = "Invalid or no port(s) provided."

\* The probe commands: the listing, and the two existence probes of a port.
IsProbeCommand(call) ==
  \/ call.purpose = "list" /\ call.cmd = listCommand(cfg)
  \/ /\ call.purpose = "check"
     /\ call.cmd \in {<<"lsof", "-i", "tcp:" \o NumStr(call.port)>>,
                      <<"netstat", "-na", "|", "grep", ":" \o NumStr(call.port)>>}

\* C28: a check or isExist run, in either speed mode, on either platform,
\* interactive or not, passes no termination command to the shell
\* primitive: every command it issues is a probe.
C28_ReadOnlyActionsNeverKill ==
  cfg.action \in {"check", "isExist"} =>
    /\ attempts = <<>>
    /\ \A i \in 1..Len(sh) : ~IsTermination(sh[i].cmd) /\ IsProbeCommand(sh[i])

\* An interactive isExist run over two selected ports is over: a listing
\* and two probes were issued.
C28_Witness ==
  /\ cfg.action = "isExist"
  /\ cfg.interactive
  /\ pc = "done"
  /\ Len(ports) = 2
  /\ Len(sh) = 3
  /\ sh[3].st = "resolved"
  /\ TrimNonEmpty(sh[3].stdout)

\* C29: on Unix-like platforms the existence probe that gates a kill is
\* scoped to the configured protocol and the port, like the kill command
\* it gates.
C29_PreconditionScopedToProtocol ==
  cfg.platform # "win32" =>
    \A i \in 1..Len(sh) :
      /\ sh[i].purpose = "exists" =>
           sh[i].cmd[Len(sh[i].cmd)] = cfg.method \o ":" \o NumStr(sh[i].port)
      /\ sh[i].purpose = "kill" =>
           \E k \in 1..Len(sh[i].cmd) : sh[i].cmd[k] = cfg.method \o ":" \o NumStr(sh[i].port)

\* The ports listed to the operator, as numbers.
ListedPorts == {StringToNumber(active[j]) : j \in 1..Len(active)}

\* C30: an interactive run with a known action operates on the ports the
\* operator selected and on nothing else: every port a command is issued
\* for was listed and selected, the ports resolved from the port spec are
\* operated on only if selected, and an answer that selects nothing
\* leaves the run resolved without any check or termination command.
C30_OnlySelectedPorts ==
  (Answered /\ cfg.action \in KnownActions) =>
    /\ \A i \in 1..Len(ports) : ports[i] \in ListedPorts
    /\ \A i \in 2..Len(sh) :
         /\ sh[i].port \in Range(ports)
         /\ sh[i].port \in Range(SelectedByIndex(active, Split(answer, ",")))
    /\ LET begun == IF cfg.action = "kill" THEN attempts
                     ELSE [i \in 1..Len(PortCalls) |-> PortCalls[i].port]
       IN /\ Len(begun) <= Len(ports)
          /\ begun = SubSeq(ports, 1, Len(begun))
          /\ pc = "done" => begun = ports
    /\ SelectedByIndex(active, Split(answer, ",")) = <<>> =>
         (pc = "done" /\ result = "resolved" /\ Len(sh) = 1 /\ PortReports = <<>>)

\* The port spec resolved to 81; the operator was shown four ports and
\* answered '1': port 80 alone was killed.  Another operator's answer
\* '0,x,9' would have selected nothing.
C30_Witness ==
  /\ Answered
  /\ cfg.action = "kill"
  /\ parsePorts(cfg) = <<Num(81)>>
  /\ Len(active) = 4
  /\ answer = <<"1">>
  /\ pc = "done"
  /\ Len(sh) = 3
  /\ sh[2].port = Num(80)
  /\ sh[3].port = Num(80)
  /\ sh[3].purpose = "kill"

\* A command is in flight.
InFlight == sh # <<>> /\ sh[Len(sh)].st = "pending"

\* C27: when every shell command issued completes and the operator
\* answers, every run settles; and while a command is in flight the run
\* takes no step but the completion of that command: nothing times out,
\* nothing is cancelled.
C27_RunTerminates ==
  /\ (pc # "done") ~> (pc = "done" /\ result \in {"resolved", "rejected"})
  /\ [][InFlight => (Len(sh') >= Len(sh) /\ sh'[Len(sh)].st # "pending"
                     /\ result = "pending")]_vars

\* An interactive kill of two selected ports has resolved after five
\* commands and one answer.
C27_Witness ==
  /\ cfg.interactive
  /\ cfg.action = "kill"
  /\ prompts = 1
  /\ Len(ports) = 2
  /\ Len(sh) = 5
  /\ ~InFlight
  /\ pc = "done"
  /\ result = "resolved"

\* A run of execute() on its own, for a client that goes straight to
\* dispatch: where it stands at its first await ...
StartAlone(c) ==
  LET parsedPorts == parsePorts(c)
  IN IF Len(parsedPorts) = 0
     THEN St("done", 0, <<>>, <<>>, "rejected", "Invalid or no port(s) provided.", <<>>)
     ELSE IF c.dryRun
     THEN St("done", 0, <<>>, <<Msg("success", DryRunMessage(parsedPorts))>>,
             "resolved", "", <<>>)
     ELSE handlePorts(c, parsedPorts, <<>>, <<>>)

\* ... where a reply to its pending command takes it ...
ResumeAlone(c, ps, st, reply) ==
  CASE st.pc = "check" ->
         showPortInfo(c, ps, st.idx + 1, Settle(st.sh, reply),
                      Append(st.out, showPortInfoReport(ps[st.idx], checkPortStatus(c, reply))),
                      st.attempts)
    [] st.pc \in {"exists", "netstat"} ->
         LET command == IF st.pc = "exists"
                        THEN getUnixKillCommand(ps[st.idx], c.method, c.graceful, reply)
                        ELSE getWindowsKillCommand(ps[st.idx], c.method, reply)
         IN IF command.threw
            THEN killPortsCatch(c, ps, st.idx, Settle(st.sh, reply), st.out, st.attempts,
                                command.message)
            ELSE killPortsRun(c, ps, st.idx, Settle(st.sh, reply), st.out, st.attempts,
                              command.value)
    [] st.pc = "kill" ->
         IF reply.ok
         THEN killPorts(c, ps, st.idx + 1, Settle(st.sh, reply),
                        Append(st.out, Msg("success",
                                           "Successfully killed port " \o NumStr(ps[st.idx])
                                           \o " " \o StdoutStr(reply.stdout))),
                        st.attempts)
         ELSE killPortsCatch(c, ps, st.idx, Settle(st.sh, reply), st.out, st.attempts,
                             reply.msg)
    [] OTHER -> st

\* ... and where the replies of a sequence take it.
RECURSIVE RunAlone(_, _, _, _)
RunAlone(c, ps, st, replies) ==
  IF replies = <<>> THEN st
  ELSE RunAlone(c, ps, ResumeAlone(c, ps, st, replies[1]), Tail(replies))

\* The replies an invocation has got so far.
RepliesGot(calls) ==
  LET Settled(call) == call.st # "pending"
      settled == SelectSeq(calls, Settled)
  IN [i \in 1..Len(settled) |-> ReplyOf(settled[i])]

\* The invocation stands where its run would stand on its own after the
\* same replies.
AsAlone(inv) ==
  \/ inv.pc = "start" /\ inv.sh = <<>> /\ inv.out = <<>> /\ inv.result = "pending"
  \/ /\ inv.pc # "start"
     /\ LET st == RunAlone(inv.cfg, parsePorts(inv.cfg), StartAlone(inv.cfg),
                           RepliesGot(inv.sh))
        IN /\ inv.pc = st.pc
           /\ inv.sh = st.sh
           /\ inv.out = st.out
           /\ inv.result = st.result
           /\ inv.err = st.err
           /\ inv.attempts = st.attempts

====
